---- MODULE Spec2Model ----
(***************************************************************************)
(* Model of lab_3.cpp: the FolderMonitor engine (tracked map, snapshot     *)
(* time, detectChanges/addFile/commit/status/info), the File class         *)
(* hierarchy it allocates, the command loop of main, and the file system   *)
(* and clocks the program reads.  The line counters of TextFile and       *)
(* ProgramFile are modelled apart from the monitor, on the content of one  *)
(* file (AnalysisSpec).                                                    *)
(*                                                                         *)
(* A path is an index into PathTable, which lists the entries in           *)
(* ascending order of their path strings, so the iteration order of        *)
(* std::map<std::string, File*> is the order of the indices.               *)
(***************************************************************************)
EXTENDS Integers, Sequences, FiniteSets, TLC

\* ---------------------------------------------------------------- bounds
NumPaths == 2
MaxTime == 1
MaxLines == 3

\* ------------------------------------------------------- paths and names
folderPath == "./test_folder"

PathTable ==
    << [stem |-> "a", ext |-> ".txt"],
       [stem |-> "b", ext |-> ".cpp"],
       [stem |-> "c", ext |-> ".TXT"],
       [stem |-> "d", ext |-> ".png"],
       [stem |-> "e", ext |-> ".java"],
       [stem |-> "f", ext |-> ".jpg"],
       [stem |-> "g", ext |-> ""] >>

Paths == 1..NumPaths

\* entry.path().string()
PathString(p) == folderPath \o "/" \o PathTable[p].stem \o PathTable[p].ext

\* fs::path(path).filename().string()
Filename(p) == PathTable[p].stem \o PathTable[p].ext

\* fs::path(path).extension().string()
Extension(p) == PathTable[p].ext

Filenames == {Filename(p) : p \in Paths}

\* ---------------------------------------------------------------- clocks
(* std::time(0) is seconds since the Unix epoch.  fs::last_write_time(p)   *)
(* .time_since_epoch().count() is a tick count of std::chrono::file_clock, *)
(* whose epoch and tick are chosen by the standard library of the build:   *)
(*   libstdc++  nanoseconds since 2174-01-01                               *)
(*   libc++     nanoseconds since 1970-01-01                               *)
(* (The library of MSVC counts 100 ns units since 1601-01-01; its counts   *)
(* order against time(0) as those of libc++ do for every file written      *)
(* after 1970.)                                                            *)
(* Times of the model are small integers, so the tick rate and the epoch   *)
(* distance are scaled down keeping their order relations: one tick rate   *)
(* step exceeds every clock value the model reaches, and the epoch of      *)
(* libstdc++ lies beyond every reachable time.                             *)
Builds == {"libstdc++", "libc++"}

TicksPerSecond == 10 * (MaxTime + 1)
EpochDistance == 4 * (MaxTime + 1)

VARIABLES
    pc,                \* "start", "running", "terminated", "exited"
    build,             \* the standard library the program was built with
    dirExists,         \* the monitored directory exists
    disk,              \* present entry -> time of its last write, seconds
    now,               \* wall clock, seconds
    lastSnapshotTime,  \* FolderMonitor::lastSnapshotTime
    files,             \* FolderMonitor::files, path -> File record
    \* What the last command did, as seen until the file system changes next:
    lastCmd,           \* "construct", "commit", "status", "info", "unknown", "exit";
                       \* "none" at the start and once the file system has changed
    out,               \* the lines that command printed
    currentFiles,      \* the listing that command took (constructor, detectChanges)
    repeated,          \* that command is a status() that directly followed a
                       \* completed status()
    unreadable,        \* the entry whose metadata that command failed to read, or 0
    \* The free store:
    heap,              \* path -> records allocated for it by new and not yet deleted
    \* One file handed to the analysing constructors, apart from the monitor:
    content,           \* the characters of the file
    analysis           \* the counters of the TextFile or ProgramFile built from it

monitorVars == <<pc, build, dirExists, disk, now, lastSnapshotTime, files, out,
                 currentFiles, lastCmd, repeated, unreadable, heap>>

analysisVars == <<content, analysis>>

vars == <<monitorVars, analysisVars>>

\* fs::last_write_time(path).time_since_epoch().count() of a file written at t
FileClockCount(t) ==
    CASE build = "libstdc++" -> (t - EpochDistance) * TicksPerSecond
      [] build = "libc++"    -> t * TicksPerSecond

\* ClassOf with the test for ".txt" written without the dot
ClassOf_noText(ext) ==
    IF ext = "txt" THEN "TextFile"
    ELSE IF ext = ".png" \/ ext = ".jpg" THEN "ImageFile"
    ELSE IF ext = ".cpp" \/ ext = ".java" THEN "ProgramFile"
    ELSE "File"

\* ClassOf that knows ".java" as the only extension of a program
ClassOf_javaOnly(ext) ==
    IF ext = ".txt" THEN "TextFile"
    ELSE IF ext = ".png" \/ ext = ".jpg" THEN "ImageFile"
    ELSE IF ext = ".java" THEN "ProgramFile"
    ELSE "File"

\* ------------------------------------------------------------ File class
\* The dynamic class addFile chooses for an extension.
ClassOf(ext) ==
    IF ext = ".txt" THEN "TextFile"
    ELSE IF ext = ".png" \/ ext = ".jpg" THEN "ImageFile"
    ELSE IF ext = ".cpp" \/ ext = ".java" THEN "ProgramFile"
    ELSE "File"

\* File::File(path), when fs::last_write_time succeeds
NewFile(p) ==
    [ filename       |-> Filename(p),
      extension      |-> Extension(p),
      creationTime   |-> FileClockCount(disk[p]),
      lastUpdateTime |-> FileClockCount(disk[p]),
      class          |-> ClassOf(Extension(p)) ]

\* File::isChanged
isChanged(file, snapshotTime) == file.lastUpdateTime > snapshotTime

\* files[path] = new ...(path)
addFile(fs, p) ==
    [q \in (DOMAIN fs) \cup {p} |-> IF q = p THEN NewFile(p) ELSE fs[q]]

\* ----------------------------------------------------------------- output
Line(m, fn) == [msg |-> m, filename |-> fn, info |-> <<>>]
Deleted(fn) == Line("was deleted.", fn)
IsNew(fn) == Line("is a new file.", fn)
Changed(fn) == Line("has changed.", fn)
NotFound(fn) == Line("File not found", fn)
SnapshotUpdated == Line("Snapshot updated.", "")
UnknownCommand == Line("Unknown command.", "")
\* File::displayInfo and its overrides
displayInfo(file) == [msg |-> "info", filename |-> file.filename, info |-> <<file>>]

\* ------------------------------------------------------------ free store
\* new File(path) and its siblings in addFile, for every path of S
operatorNew(h, S) == [p \in Paths |-> IF p \in S THEN h[p] + 1 ELSE h[p]]

\* delete it->second in detectChanges, delete file in ~FolderMonitor
operatorDelete(h, S) == [p \in Paths |-> IF p \in S THEN h[p] - 1 ELSE h[p]]

NoRecords == [p \in Paths |-> 0]

\* ------------------------------------------------------------- listings
\* fs::directory_iterator yields the entries in an unspecified order.
Listings(S) ==
    {s \in [1..Cardinality(S) -> S] : \A i, j \in 1..Cardinality(S) : s[i] = s[j] => i = j}

Range(s) == {s[i] : i \in 1..Len(s)}

NoFiles == [q \in {} |-> 0]

\* ------------------------------------------------------- FolderMonitor
(* fs::last_write_time(path) in File::File throws filesystem_error when the  *)
(* metadata of the entry cannot be read: the entry is a dangling symbolic   *)
(* link, or it was removed after the directory was listed.  Whether a read  *)
(* fails is an input of the step: bad is the entry whose read fails, 0 when *)
(* every read succeeds.                                                     *)

\* The constructor's loop: addFile for every entry, in listing order, left by
\* the exception at the entry that cannot be read.
RECURSIVE addAll(_, _, _, _)
addAll(listing, i, fs, bad) ==
    IF i > Len(listing) THEN [files |-> fs, thrown |-> FALSE]
    ELSE IF listing[i] = bad THEN [files |-> fs, thrown |-> TRUE]
    ELSE addAll(listing, i + 1, addFile(fs, listing[i]), bad)

\* removeLoop that prints the deleted file and leaves its entry in the map
RECURSIVE removeLoop_noErase(_, _, _, _)
removeLoop_noErase(listing, p, fs, ev) ==
    IF p > NumPaths THEN [files |-> fs, out |-> ev]
    ELSE IF p \in DOMAIN fs /\ p \notin Range(listing)
         THEN removeLoop_noErase(listing, p + 1, fs,
                                 Append(ev, Deleted(fs[p].filename)))
         ELSE removeLoop_noErase(listing, p + 1, fs, ev)

\* detectChanges, first loop: walk the map in key order, print and erase every
\* path that is not in the listing.
RECURSIVE removeLoop(_, _, _, _)
removeLoop(listing, p, fs, ev) ==
    IF p > NumPaths THEN [files |-> fs, out |-> ev]
    ELSE IF p \in DOMAIN fs /\ p \notin Range(listing)
         THEN removeLoop(listing, p + 1,
                         [q \in (DOMAIN fs) \ {p} |-> fs[q]],
                         Append(ev, Deleted(fs[p].filename)))
         ELSE removeLoop(listing, p + 1, fs, ev)

\* scanLoop that, having printed a change, moves the record's time stamp to the
\* snapshot time
RECURSIVE scanLoop_ack(_, _, _, _, _, _)
scanLoop_ack(listing, i, fs, ev, snapshotTime, bad) ==
    IF i > Len(listing) THEN [files |-> fs, out |-> ev, thrown |-> FALSE]
    ELSE LET p == listing[i] IN
         IF p \notin DOMAIN fs
         THEN IF p = bad
              THEN [files |-> fs, out |-> ev, thrown |-> TRUE]
              ELSE scanLoop_ack(listing, i + 1, addFile(fs, p),
                                Append(ev, IsNew(Filename(p))), snapshotTime, bad)
         ELSE IF isChanged(fs[p], snapshotTime)
              THEN scanLoop_ack(listing, i + 1,
                                [fs EXCEPT ![p].lastUpdateTime = snapshotTime],
                                Append(ev, Changed(Filename(p))), snapshotTime, bad)
              ELSE scanLoop_ack(listing, i + 1, fs, ev, snapshotTime, bad)

\* scanLoop that reads the time stamp of a tracked file again before the test
RECURSIVE scanLoop_reread(_, _, _, _, _, _)
scanLoop_reread(listing, i, fs, ev, snapshotTime, bad) ==
    IF i > Len(listing) THEN [files |-> fs, out |-> ev, thrown |-> FALSE]
    ELSE LET p == listing[i] IN
         IF p \notin DOMAIN fs
         THEN IF p = bad
              THEN [files |-> fs, out |-> ev, thrown |-> TRUE]
              ELSE scanLoop_reread(listing, i + 1, addFile(fs, p),
                                   Append(ev, IsNew(Filename(p))), snapshotTime, bad)
         ELSE LET fresh == [fs EXCEPT ![p].lastUpdateTime = FileClockCount(disk[p])] IN
              IF isChanged(fresh[p], snapshotTime)
              THEN scanLoop_reread(listing, i + 1, fresh,
                                   Append(ev, Changed(Filename(p))), snapshotTime, bad)
              ELSE scanLoop_reread(listing, i + 1, fresh, ev, snapshotTime, bad)

\* detectChanges, second loop: walk the listing in its order; an untracked path
\* is added and printed as new, a tracked one is printed when isChanged.  The
\* exception of File::File leaves the loop at once.
RECURSIVE scanLoop(_, _, _, _, _, _)
scanLoop(listing, i, fs, ev, snapshotTime, bad) ==
    IF i > Len(listing) THEN [files |-> fs, out |-> ev, thrown |-> FALSE]
    ELSE LET p == listing[i] IN
         IF p \notin DOMAIN fs
         THEN IF p = bad
              THEN [files |-> fs, out |-> ev, thrown |-> TRUE]
              ELSE scanLoop(listing, i + 1, addFile(fs, p),
                            Append(ev, IsNew(Filename(p))), snapshotTime, bad)
         ELSE IF isChanged(fs[p], snapshotTime)
              THEN scanLoop(listing, i + 1, fs,
                            Append(ev, Changed(Filename(p))), snapshotTime, bad)
              ELSE scanLoop(listing, i + 1, fs, ev, snapshotTime, bad)

\* detectChanges without its first loop
detectChanges_keepStale(fs, listing, snapshotTime, bad) ==
    scanLoop(listing, 1, fs, <<>>, snapshotTime, bad)

\* detectChanges with its two loops in the other order
detectChanges_swapped(fs, listing, snapshotTime, bad) ==
    LET r == scanLoop(listing, 1, fs, <<>>, snapshotTime, bad)
        d == removeLoop(listing, 1, r.files, r.out)
    IN  [files |-> d.files, out |-> d.out, thrown |-> r.thrown]

\* FolderMonitor::detectChanges over a listing that could be taken
detectChanges(fs, listing, snapshotTime, bad) ==
    LET r == removeLoop(listing, 1, fs, <<>>)
    IN  scanLoop(listing, 1, r.files, r.out, snapshotTime, bad)

\* info that looks only at the records whose file is in the directory now
info_live(fs, name) ==
    LET matches == {p \in (DOMAIN fs) \cap (DOMAIN disk) : fs[p].filename = name}
    IN  IF matches = {} THEN <<NotFound(name)>>
        ELSE <<displayInfo(fs[CHOOSE p \in matches : \A q \in matches : p <= q])>>

\* FolderMonitor::info: the first record in map order whose filename matches
info(fs, name) ==
    LET matches == {p \in DOMAIN fs : fs[p].filename = name}
    IN  IF matches = {} THEN <<NotFound(name)>>
        ELSE <<displayInfo(fs[CHOOSE p \in matches : \A q \in matches : p <= q])>>

InfoNames == Filenames

\* ------------------------------------------------------- file analysis
(* TextFile and ProgramFile read their file line by line in the            *)
(* constructor.  A file is a sequence of characters, each a string of      *)
(* length one.                                                             *)
NL == "\n"

\* the lines std::getline(file, line) delivers from position i on, line being
\* the characters gathered since the last newline; the read that finds nothing
\* before the end of the file fails and ends the loop
RECURSIVE getline(_, _, _)
getline(c, i, line) ==
    IF i > Len(c) THEN (IF line = <<>> THEN <<>> ELSE <<line>>)
    ELSE IF c[i] = NL THEN <<line>> \o getline(c, i + 1, <<>>)
    ELSE getline(c, i + 1, Append(line, c[i]))

\* std::count_if(line.begin(), line.end(), [](char c) { return c == ch; })
count_if(line, ch) == Cardinality({i \in 1..Len(line) : line[i] = ch})

\* line.find(pattern) != std::string::npos
find(line, pattern) ==
    \E i \in 1..(Len(line) - Len(pattern) + 1) :
        SubSeq(line, i, i + Len(pattern) - 1) = pattern

\* no TextFile or ProgramFile has been built from the content
NotAnalysed == [class |-> "none"]

\* the loop of TextFile::analyzeFile counting the spaces of a line as its words
RECURSIVE TextFile_analyzeLoop_spaces(_, _, _)
TextFile_analyzeLoop_spaces(lines, i, m) ==
    IF i > Len(lines) THEN m
    ELSE TextFile_analyzeLoop_spaces(lines, i + 1,
            [m EXCEPT !.lineCount = @ + 1,
                      !.wordCount = @ + count_if(lines[i], " "),
                      !.charCount = @ + Len(lines[i])])

\* TextFile::analyzeFile, the loop from line i on
RECURSIVE TextFile_analyzeLoop(_, _, _)
TextFile_analyzeLoop(lines, i, m) ==
    IF i > Len(lines) THEN m
    ELSE TextFile_analyzeLoop(lines, i + 1,
            [m EXCEPT !.lineCount = @ + 1,
                      !.wordCount = @ + count_if(lines[i], " ") + 1,
                      !.charCount = @ + Len(lines[i])])

TextFile_analyzeFile(c) ==
    TextFile_analyzeLoop(getline(c, 1, <<>>), 1,
        [class |-> "TextFile", lineCount |-> 0, wordCount |-> 0, charCount |-> 0])

ClassPattern == <<"c", "l", "a", "s", "s", " ">>
VoidPattern == <<"v", "o", "i", "d", " ">>
ParenPattern == <<"(">>

\* the loop of ProgramFile::analyzeFile with one test for each method trigger
RECURSIVE ProgramFile_analyzeLoop_each(_, _, _)
ProgramFile_analyzeLoop_each(lines, i, m) ==
    IF i > Len(lines) THEN m
    ELSE ProgramFile_analyzeLoop_each(lines, i + 1,
            [m EXCEPT !.lineCount = @ + 1,
                      !.classCount = IF find(lines[i], ClassPattern) THEN @ + 1 ELSE @,
                      !.methodCount = @ + (IF find(lines[i], VoidPattern) THEN 1 ELSE 0)
                                        + (IF find(lines[i], ParenPattern) THEN 1 ELSE 0)])

\* ProgramFile::analyzeFile, the loop from line i on
RECURSIVE ProgramFile_analyzeLoop(_, _, _)
ProgramFile_analyzeLoop(lines, i, m) ==
    IF i > Len(lines) THEN m
    ELSE ProgramFile_analyzeLoop(lines, i + 1,
            [m EXCEPT !.lineCount = @ + 1,
                      !.classCount = IF find(lines[i], ClassPattern) THEN @ + 1 ELSE @,
                      !.methodCount = IF find(lines[i], VoidPattern)
                                         \/ find(lines[i], ParenPattern)
                                      THEN @ + 1 ELSE @])

ProgramFile_analyzeFile(c) ==
    ProgramFile_analyzeLoop(getline(c, 1, <<>>), 1,
        [class |-> "ProgramFile", lineCount |-> 0, classCount |-> 0, methodCount |-> 0])

\* the lines the files under analysis are made of
SampleLines ==
    { <<"a", " ", "b", " ", " ", "c">>,
      <<"c", "l", "a", "s", "s", " ", "F", "o", "o", " ", "{">>,
      <<" ", " ", "v", "o", "i", "d", " ", "b", "a", "r", "(", ")", " ", "{", "}">>,
      <<"}">>,
      <<>>,
      <<"s", "u", "b", "c", "l", "a", "s", "s", "(", "x", ")">>,
      <<"v", "o", "i", "d", " ", "f", ";">> }

\* the file with the given lines, the last one ended by a newline or not
RECURSIVE FileOf(_, _)
FileOf(lines, ended) ==
    IF lines = <<>> THEN <<>>
    ELSE IF Len(lines) = 1 THEN (IF ended THEN Append(lines[1], NL) ELSE lines[1])
    ELSE Append(lines[1], NL) \o FileOf(Tail(lines), ended)

Contents ==
    {FileOf(ls, ended) : ls \in UNION {[1..n -> SampleLines] : n \in 0..MaxLines},
                         ended \in BOOLEAN}

\* ------------------------------------------------------------------ Init

InitMonitor ==
    /\ pc = "start"
    /\ build \in Builds
    /\ dirExists = TRUE
    /\ disk = NoFiles
    /\ now = 0
    /\ lastSnapshotTime = 0
    /\ files = NoFiles
    /\ out = <<>>
    /\ currentFiles = <<>>
    /\ lastCmd = "none"
    /\ repeated = FALSE
    /\ unreadable = 0
    /\ heap = NoRecords

\* the monitor before its construction; no file is under analysis
Init ==
    /\ InitMonitor
    /\ content = <<>>
    /\ analysis = NotAnalysed

\* ----------------------------------------------------------- environment
Alive == pc \in {"start", "running"}

\* a change of the file system ends the view of the last command
Forget ==
    /\ lastCmd' = "none"
    /\ out' = <<>>
    /\ currentFiles' = <<>>
    /\ repeated' = FALSE
    /\ unreadable' = 0

\* a regular file appears, freshly written or with an older time stamp
CreateFile(p, m) ==
    /\ Alive /\ dirExists /\ p \notin DOMAIN disk
    /\ disk' = [q \in (DOMAIN disk) \cup {p} |-> IF q = p THEN m ELSE disk[q]]
    /\ Forget
    /\ UNCHANGED <<heap, content, analysis>>
    /\ UNCHANGED <<pc, build, dirExists, now, lastSnapshotTime, files>>

WriteFile(p) ==
    /\ Alive /\ p \in DOMAIN disk
    /\ disk' = [disk EXCEPT ![p] = now]
    /\ Forget
    /\ UNCHANGED <<heap, content, analysis>>
    /\ UNCHANGED <<pc, build, dirExists, now, lastSnapshotTime, files>>

DeleteFile(p) ==
    /\ Alive /\ p \in DOMAIN disk
    /\ disk' = [q \in (DOMAIN disk) \ {p} |-> disk[q]]
    /\ Forget
    /\ UNCHANGED <<heap, content, analysis>>
    /\ UNCHANGED <<pc, build, dirExists, now, lastSnapshotTime, files>>

\* the monitored directory is removed with everything in it
RemoveRoot ==
    /\ Alive /\ dirExists
    /\ dirExists' = FALSE
    /\ disk' = NoFiles
    /\ Forget
    /\ UNCHANGED <<heap, content, analysis>>
    /\ UNCHANGED <<pc, build, now, lastSnapshotTime, files>>

\* the wall clock advances by a second
Tick ==
    /\ Alive /\ now < MaxTime
    /\ now' = now + 1
    /\ UNCHANGED <<heap, content, analysis>>
    /\ UNCHANGED <<pc, build, dirExists, disk, lastSnapshotTime, files, out,
                   currentFiles, lastCmd, repeated, unreadable>>

\* --------------------------------------------------------------- program
\* main, line 194: FolderMonitor monitor("./test_folder").  An exception of the
\* directory iterator or of File::File is caught nowhere: std::terminate.
Construct ==
    /\ pc = "start"
    /\ lastCmd' = "construct" /\ repeated' = FALSE
    /\ lastSnapshotTime' = now
    /\ out' = <<>>
    /\ IF ~dirExists
       THEN /\ pc' = "terminated"
            /\ files' = files
            /\ heap' = heap
            /\ currentFiles' = <<>>
            /\ unreadable' = 0
       ELSE \E listing \in Listings(DOMAIN disk), bad \in {0} \cup DOMAIN disk :
              /\ currentFiles' = listing
              /\ unreadable' = bad
              /\ LET r == addAll(listing, 1, NoFiles, bad) IN
                 /\ files' = r.files
                 /\ heap' = operatorNew(heap, DOMAIN r.files)
                 /\ pc' = IF r.thrown THEN "terminated" ELSE "running"
    /\ UNCHANGED <<content, analysis>>
    /\ UNCHANGED <<build, dirExists, disk, now>>

\* commit that also forgets the records whose file has left the directory
commit_prune ==
    /\ pc = "running"
    /\ lastSnapshotTime' = now
    /\ files' = [q \in (DOMAIN files) \cap (DOMAIN disk) |-> files[q]]
    /\ out' = <<SnapshotUpdated>>
    /\ lastCmd' = "commit" /\ repeated' = FALSE /\ unreadable' = 0
    /\ currentFiles' = <<>>
    /\ UNCHANGED <<heap, content, analysis>>
    /\ UNCHANGED <<pc, build, dirExists, disk, now>>

\* FolderMonitor::commit
commit ==
    /\ pc = "running"
    /\ lastSnapshotTime' = now
    /\ out' = <<SnapshotUpdated>>
    /\ lastCmd' = "commit" /\ repeated' = FALSE /\ unreadable' = 0
    /\ currentFiles' = <<>>
    /\ UNCHANGED <<heap, content, analysis>>
    /\ UNCHANGED <<pc, build, dirExists, disk, now, files>>

\* status that also takes the time of the call as the new snapshot time
status_touch ==
    /\ pc = "running"
    /\ lastCmd' = "status"
    /\ repeated' = (lastCmd = "status")
    /\ lastSnapshotTime' = now
    /\ IF ~dirExists
       THEN /\ pc' = "terminated"
            /\ out' = <<>>
            /\ files' = files
            /\ heap' = heap
            /\ currentFiles' = <<>>
            /\ unreadable' = 0
       ELSE \E listing \in Listings(DOMAIN disk),
               bad \in {0} \cup ((DOMAIN disk) \ (DOMAIN files)) :
              /\ currentFiles' = listing
              /\ unreadable' = bad
              /\ LET r == detectChanges(files, listing, lastSnapshotTime, bad) IN
                 /\ files' = r.files
                 /\ heap' = operatorNew(operatorDelete(heap, (DOMAIN files) \ (DOMAIN r.files)),
                                        (DOMAIN r.files) \ (DOMAIN files))
                 /\ out' = r.out
                 /\ pc' = IF r.thrown THEN "terminated" ELSE "running"
    /\ UNCHANGED <<content, analysis>>
    /\ UNCHANGED <<build, dirExists, disk, now>>

\* FolderMonitor::status -> detectChanges.  The directory iterator throws when
\* the directory is gone, File::File when an entry cannot be read; main has no
\* handler, so the process ends in std::terminate.
status ==
    /\ pc = "running"
    /\ lastCmd' = "status"
    /\ repeated' = (lastCmd = "status")
    /\ IF ~dirExists
       THEN /\ pc' = "terminated"
            /\ out' = <<>>
            /\ files' = files
            /\ heap' = heap
            /\ currentFiles' = <<>>
            /\ unreadable' = 0
       ELSE \E listing \in Listings(DOMAIN disk),
               bad \in {0} \cup ((DOMAIN disk) \ (DOMAIN files)) :
              /\ currentFiles' = listing
              /\ unreadable' = bad
              /\ LET r == detectChanges(files, listing, lastSnapshotTime, bad) IN
                 /\ files' = r.files
                 /\ heap' = operatorNew(operatorDelete(heap, (DOMAIN files) \ (DOMAIN r.files)),
                                        (DOMAIN r.files) \ (DOMAIN files))
                 /\ out' = r.out
                 /\ pc' = IF r.thrown THEN "terminated" ELSE "running"
    /\ UNCHANGED <<content, analysis>>
    /\ UNCHANGED <<build, dirExists, disk, now, lastSnapshotTime>>

\* main, lines 205-207
Info(name) ==
    /\ pc = "running"
    /\ out' = info(files, name)
    /\ lastCmd' = "info" /\ repeated' = FALSE /\ unreadable' = 0
    /\ currentFiles' = <<>>
    /\ UNCHANGED <<heap, content, analysis>>
    /\ UNCHANGED <<pc, build, dirExists, disk, now, lastSnapshotTime, files>>

\* main, lines 210-212
Unknown ==
    /\ pc = "running"
    /\ out' = <<UnknownCommand>>
    /\ lastCmd' = "unknown" /\ repeated' = FALSE /\ unreadable' = 0
    /\ currentFiles' = <<>>
    /\ UNCHANGED <<heap, content, analysis>>
    /\ UNCHANGED <<pc, build, dirExists, disk, now, lastSnapshotTime, files>>

\* main, lines 208-209 and 215; ~FolderMonitor deletes every record
Exit ==
    /\ pc = "running"
    /\ pc' = "exited"
    /\ heap' = operatorDelete(heap, DOMAIN files)
    /\ files' = NoFiles
    /\ out' = <<>>
    /\ lastCmd' = "exit" /\ repeated' = FALSE /\ unreadable' = 0
    /\ currentFiles' = <<>>
    /\ UNCHANGED <<content, analysis>>
    /\ UNCHANGED <<build, dirExists, disk, now, lastSnapshotTime>>

Next ==
    \/ \E p \in Paths, m \in 0..now : CreateFile(p, m)
    \/ \E p \in Paths : WriteFile(p)
    \/ \E p \in Paths : DeleteFile(p)
    \/ RemoveRoot
    \/ Tick
    \/ Construct
    \/ commit
    \/ status
    \/ \E name \in InfoNames : Info(name)
    \/ Unknown
    \/ Exit

Spec == Init /\ [][Next]_vars

TypeOK ==
    /\ pc \in {"start", "running", "terminated", "exited"}
    /\ DOMAIN disk \subseteq Paths
    /\ DOMAIN files \subseteq Paths
    /\ now \in 0..MaxTime

\* ------------------------------------------- analysis of a single file
\* a file is given; nothing has been built from it
InitAnalysis ==
    /\ InitMonitor
    /\ content \in Contents
    /\ analysis = NotAnalysed

\* TextFile::TextFile, lines 71-73
NewTextFile ==
    /\ analysis = NotAnalysed
    /\ analysis' = TextFile_analyzeFile(content)
    /\ UNCHANGED <<monitorVars, content>>

\* ProgramFile::ProgramFile, lines 101-103
NewProgramFile ==
    /\ analysis = NotAnalysed
    /\ analysis' = ProgramFile_analyzeFile(content)
    /\ UNCHANGED <<monitorVars, content>>

NextAnalysis ==
    \/ NewTextFile
    \/ NewProgramFile

AnalysisSpec == InitAnalysis /\ [][NextAnalysis]_vars

\* ================================================================ claims
\* indices of the lines of an output that concern a file name
LinesFor(o, fn) == {i \in 1..Len(o) : o[i].filename = fn}

\* the file names an output reports with a given message
Reported(o, m) == {o[i].filename : i \in {j \in 1..Len(o) : o[j].msg = m}}

Removed(o) == Reported(o, "was deleted.")
Added(o) == Reported(o, "is a new file.")
Modified(o) == Reported(o, "has changed.")

\* C1: right after the construction and right after every status() that
\* completes, the keys of the tracked map are exactly the paths the scan
\* listed, which are the entries of the directory.
C1_TrackedIsListing ==
    (pc = "running" /\ lastCmd \in {"construct", "status"}) =>
        /\ DOMAIN files = Range(currentFiles)
        /\ DOMAIN files = DOMAIN disk

\* a status() that completed after removing one path and adding another
C1_Witness ==
    /\ pc = "running" /\ lastCmd = "status"
    /\ Removed(out) # {} /\ Added(out) # {}
    /\ DOMAIN files = Range(currentFiles)

\* C2: a status() that completes prints "<filename> has changed." for every
\* path that was tracked before the call and is in the directory with a
\* modification time later than the last commit.
C2_ModifiedWhenWrittenAfterCommit ==
    (pc = "running" /\ lastCmd = "status") =>
        \A p \in (DOMAIN files) \cap (DOMAIN disk) :
            ( /\ disk[p] > lastSnapshotTime
              /\ Filename(p) \notin Added(out) )
            => Filename(p) \in Modified(out)

\* C3, as claimed: a status() that directly follows a completed status(), with
\* no change of the file system and no other command between them, reports the
\* same set of modified files as the first.
C3_StatusIdempotent ==
    [][(lastCmd = "status" /\ lastCmd' = "status" /\ status)
         => (pc' = "running" /\ Modified(out') = Modified(out))]_vars

\* C3, amended: the second status() completes, adds and removes nothing, and
\* reports as modified the files the first reported as modified, and beyond
\* them only files that the first call added.
C3_StatusIdempotentOnTracked ==
    [][(lastCmd = "status" /\ lastCmd' = "status" /\ status)
         => /\ pc' = "running"
            /\ files' = files
            /\ Removed(out') = {} /\ Added(out') = {}
            /\ Modified(out') \ Added(out) = Modified(out)]_vars

\* the second of two such status() calls, both reporting a modified file
C3_Witness ==
    /\ pc = "running" /\ lastCmd = "status" /\ repeated
    /\ Modified(out) # {}

\* C4: a status() that directly follows commit(), with no change of the file
\* system between them, prints nothing.  The claim is taken in the reading most
\* favourable to the code: the directory has not changed since the last scan
\* either, so that nothing is left to add or to remove.
C4_NothingAfterCommit ==
    [][(lastCmd = "commit" /\ lastCmd' = "status" /\ dirExists
          /\ DOMAIN files = DOMAIN disk /\ status)
         => out' = <<>>]_vars

\* rank of a line in the order removals, additions, modifications
Rank(l) ==
    IF l.msg = "was deleted." THEN 1
    ELSE IF l.msg = "is a new file." THEN 2
    ELSE 3

\* C5, as claimed: in the output of a status(), every removal precedes every
\* addition and every addition precedes every modification.
C5_RemovedAddedModifiedOrder ==
    lastCmd = "status" =>
        \A i, j \in 1..Len(out) : i < j => Rank(out[i]) <= Rank(out[j])

\* position of a file name in a listing
PosIn(listing, fn) == CHOOSE i \in 1..Len(listing) : Filename(listing[i]) = fn

\* C5, amended: in the output of a status(), every removal precedes every
\* addition and every modification; additions and modifications come in the
\* order of the directory listing, whichever kind they are.
C5_RemovedFirstThenListingOrder ==
    lastCmd = "status" =>
        \A i, j \in 1..Len(out) : i < j =>
            /\ out[j].msg = "was deleted." => out[i].msg = "was deleted."
            /\ (out[i].msg # "was deleted." /\ out[j].msg # "was deleted.") =>
                 /\ out[i].filename \in {Filename(p) : p \in Range(currentFiles)}
                 /\ out[j].filename \in {Filename(p) : p \in Range(currentFiles)}
                 /\ PosIn(currentFiles, out[i].filename) < PosIn(currentFiles, out[j].filename)

\* a status() that printed a removal and then a modification
C5_Witness ==
    /\ lastCmd = "status" /\ Len(out) >= 2
    /\ out[1].msg = "was deleted."
    /\ out[2].msg = "has changed."

\* C6: a status() over a directory that can be listed prints exactly one line
\* for every tracked path that is no longer in the directory, a removal, and
\* drops the path from the tracked map; a path that is untracked and is not
\* created again stays untracked whatever happens next; and info() on the
\* file name of an untracked path prints "File not found".
C6_RemovalThenNotFound ==
    [][ /\ (lastCmd' = "status" /\ dirExists /\ status) =>
             \A p \in (DOMAIN files) \ (DOMAIN disk) :
                /\ Cardinality(LinesFor(out', Filename(p))) = 1
                /\ Filename(p) \in Removed(out')
                /\ p \notin DOMAIN files'
        /\ \A p \in Paths :
             /\ (p \notin DOMAIN files /\ p \notin DOMAIN disk') => p \notin DOMAIN files'
             /\ (lastCmd' = "info" /\ p \notin DOMAIN files /\ Info(Filename(p)))
                    => out' = <<NotFound(Filename(p))>> ]_vars

\* a status() that has removed a deleted file, which info() no longer finds
C6_Witness ==
    /\ pc = "running" /\ lastCmd = "status"
    /\ \E p \in Paths \ DOMAIN files :
          /\ Removed(out) = {Filename(p)}
          /\ info(files, Filename(p)) = <<NotFound(Filename(p))>>

\* the classification table of the specification, section 4.2
KindOfExtension(ext) ==
    CASE ext = ".txt" -> "TextFile"
      [] ext \in {".png", ".jpg"} -> "ImageFile"
      [] ext \in {".cpp", ".java"} -> "ProgramFile"
      [] OTHER -> "File"

\* C7: a status() that returns prints exactly one line for every listed path
\* that was untracked, an addition, and tracks the path with a record of the
\* kind of its extension; info() on the file name of a tracked path displays
\* that record, of the kind of the extension.
C7_AdditionThenInfo ==
    [][ /\ (lastCmd' = "status" /\ pc' = "running" /\ status) =>
             \A p \in (DOMAIN disk) \ (DOMAIN files) :
                /\ Cardinality(LinesFor(out', Filename(p))) = 1
                /\ Filename(p) \in Added(out')
                /\ p \in DOMAIN files'
                /\ files'[p].class = KindOfExtension(Extension(p))
        /\ \A p \in DOMAIN files :
             (lastCmd' = "info" /\ Info(Filename(p))) =>
                /\ out' = <<displayInfo(files[p])>>
                /\ out'[1].filename = Filename(p)
                /\ out'[1].info[1].class = KindOfExtension(Extension(p)) ]_vars

\* a status() that has added a .txt file, which info() shows as a text file
C7_Witness ==
    /\ pc = "running" /\ lastCmd = "status"
    /\ \E p \in DOMAIN files :
          /\ Extension(p) = ".txt"
          /\ Added(out) = {Filename(p)}
          /\ Cardinality(LinesFor(out, Filename(p))) = 1
          /\ info(files, Filename(p))[1].info[1].class = "TextFile"

\* C8: a status() called when the directory is gone prints a ScanError
\* message, leaves the tracked map and the snapshot time as they were, and the
\* command loop goes on.
C8_ScanErrorReported ==
    [][(lastCmd' = "status" /\ ~dirExists /\ status) =>
          /\ pc' = "running"
          /\ \E i \in 1..Len(out') : out'[i].msg = "ScanError"
          /\ files' = files
          /\ lastSnapshotTime' = lastSnapshotTime]_vars

\* C9: a status() that fails to read the metadata of an entry prints a
\* FileError line for it, goes on with the rest of the listing, adding and
\* printing every other new entry, and returns.
C9_FailureIsolated ==
    [][(lastCmd' = "status" /\ unreadable' # 0 /\ status) =>
          /\ pc' = "running"
          /\ \E i \in 1..Len(out') :
                out'[i].msg = "FileError" /\ out'[i].filename = Filename(unreadable')
          /\ \A q \in (DOMAIN disk) \ (DOMAIN files) :
                q # unreadable' => (q \in DOMAIN files' /\ Filename(q) \in Added(out'))]_vars

\* C10: commit() sets the snapshot time to the current time and leaves the
\* tracked map, keys and records, as it was.
C10_CommitFrame ==
    [][(lastCmd' = "commit" /\ commit) => (lastSnapshotTime' = now /\ files' = files /\ pc' = pc)]_vars

\* a commit() that moved the snapshot time while the directory differed from
\* the tracked set
C10_Witness ==
    /\ pc = "running" /\ lastCmd = "commit"
    /\ lastSnapshotTime = now /\ now > 0
    /\ (DOMAIN files) \ (DOMAIN disk) # {}
    /\ (DOMAIN disk) \ (DOMAIN files) # {}

\* C11: the snapshot time is set to the current time by the construction; a
\* step that changes it is the construction or a commit(), and sets it to the
\* current time; status() and info() leave it as it was; it never decreases.
C11_SnapshotTimeOnlyByCommit ==
    [][ /\ (lastCmd' = "construct" /\ Construct) => lastSnapshotTime' = now
        /\ lastSnapshotTime' # lastSnapshotTime =>
              /\ Construct \/ commit
              /\ lastSnapshotTime' = now
        /\ (lastCmd' = "status" /\ status) => lastSnapshotTime' = lastSnapshotTime
        /\ (lastCmd' = "info" /\ \E name \in InfoNames : Info(name))
              => lastSnapshotTime' = lastSnapshotTime
        /\ lastSnapshotTime' >= lastSnapshotTime ]_vars

\* a status() that printed something at a time later than the snapshot time
C11_Witness ==
    /\ pc = "running" /\ lastCmd = "status"
    /\ out # <<>>
    /\ lastSnapshotTime < now

\* the tracked paths with a given file name
TrackedAs(name) == {p \in DOMAIN files : Filename(p) = name}

\* C12: info(name) displays the record of the first tracked path, in ascending
\* order of the paths, whose file name is name, and prints "File not found"
\* exactly when no tracked path has that file name; the directory as it is
\* now plays no part; the tracked map and the snapshot time stay as they were.
C12_InfoOnTrackedSet ==
    [][\A name \in InfoNames : (lastCmd' = "info" /\ Info(name)) =>
          /\ files' = files
          /\ lastSnapshotTime' = lastSnapshotTime
          /\ pc' = pc
          /\ (TrackedAs(name) = {}) <=> (out' = <<NotFound(name)>>)
          /\ TrackedAs(name) # {} =>
                LET first == CHOOSE p \in TrackedAs(name) : \A q \in TrackedAs(name) : p <= q
                IN  /\ out' = <<displayInfo(files[first])>>
                    /\ out'[1].filename = name ]_vars

\* an info() that displayed the record of a file that has left the directory
C12_Witness ==
    /\ pc = "running" /\ lastCmd = "info"
    /\ \E p \in (DOMAIN files) \ (DOMAIN disk) : out = <<displayInfo(files[p])>>

\* the file b.txt of the scenario: the one line a, space, b, two spaces, c,
\* with or without a newline at its end
TextExample == {FileOf(<< <<"a", " ", "b", " ", " ", "c">> >>, ended) : ended \in BOOLEAN}

\* C13, as claimed: the TextFile built from the example has one line, six
\* characters and three words.
C13_ExampleHasThreeWords ==
    (analysis.class = "TextFile" /\ content \in TextExample) =>
        /\ analysis.lineCount = 1
        /\ analysis.charCount = 6
        /\ analysis.wordCount = 3

\* the number of lines of a file: its newlines, and one more when characters
\* follow the last newline
LinesOf(c) ==
    count_if(c, NL) + (IF c # <<>> /\ c[Len(c)] # NL THEN 1 ELSE 0)

\* C13, amended: a TextFile counts the lines of its file, as characters all
\* characters but the newlines, and as words the spaces of the file plus one
\* for every line; the example has one line, six characters and four words.
C13_WordsAreSpacesPlusLines ==
    analysis.class = "TextFile" =>
        /\ analysis.lineCount = LinesOf(content)
        /\ analysis.charCount = Len(content) - count_if(content, NL)
        /\ analysis.wordCount = count_if(content, " ") + LinesOf(content)
        /\ content \in TextExample =>
              /\ analysis.lineCount = 1
              /\ analysis.charCount = 6
              /\ analysis.wordCount = 4

\* the TextFile built from the example, without a newline at its end
C13_Witness ==
    /\ analysis.class = "TextFile"
    /\ content = <<"a", " ", "b", " ", " ", "c">>
    /\ analysis.wordCount = 4

\* the three lines of the scenario: class Foo {, void bar() {} indented by two
\* spaces, and the closing brace, with or without a newline at the end
ProgramExample ==
    {FileOf(<< <<"c", "l", "a", "s", "s", " ", "F", "o", "o", " ", "{">>,
               <<" ", " ", "v", "o", "i", "d", " ", "b", "a", "r", "(", ")", " ", "{", "}">>,
               <<"}">> >>, ended) : ended \in BOOLEAN}

\* the lines of a file that satisfy a test
LinesWhere(c, Test(_)) ==
    LET lines == getline(c, 1, <<>>) IN {i \in 1..Len(lines) : Test(lines[i])}

HasClass(line) == find(line, ClassPattern)
HasMethod(line) == find(line, VoidPattern) \/ find(line, ParenPattern)

\* C14: a ProgramFile counts the lines of its file, as classes the lines that
\* contain "class " and as methods the lines that contain "void " or "(", a
\* line with both once; neither count exceeds the line count; the example
\* has three lines, one class and one method.
C14_ProgramMetrics ==
    analysis.class = "ProgramFile" =>
        /\ analysis.lineCount = LinesOf(content)
        /\ analysis.classCount = Cardinality(LinesWhere(content, HasClass))
        /\ analysis.methodCount = Cardinality(LinesWhere(content, HasMethod))
        /\ analysis.classCount <= analysis.lineCount
        /\ analysis.methodCount <= analysis.lineCount
        /\ content \in ProgramExample =>
              /\ analysis.lineCount = 3
              /\ analysis.classCount = 1
              /\ analysis.methodCount = 1

\* the ProgramFile built from the example, which has a line with both "void "
\* and "("
C14_Witness ==
    /\ analysis.class = "ProgramFile"
    /\ content \in ProgramExample
    /\ analysis.methodCount = 1
    /\ \E line \in Range(getline(content, 1, <<>>)) :
          find(line, VoidPattern) /\ find(line, ParenPattern)

\* C15: after every step each tracked record has the kind the table gives for
\* the extension of its path, upper and lower case told apart; a path tracked
\* before and after a step keeps the kind of its record; and for every
\* extension of the path table addFile picks the kind of the table.
C15_KindFixedByExtension ==
    [][ /\ \A p \in DOMAIN files' :
             files'[p].class = KindOfExtension(Extension(p))
        /\ \A p \in (DOMAIN files) \cap (DOMAIN files') :
             files'[p].class = files[p].class
        /\ \A i \in 1..Len(PathTable) :
             ClassOf(PathTable[i].ext) = KindOfExtension(PathTable[i].ext)
        /\ ClassOf(".TXT") = "File" ]_vars

\* a text file and a program file, both tracked through a commit() and two
\* status() calls
C15_Witness ==
    /\ pc = "running" /\ lastCmd = "status" /\ repeated
    /\ lastSnapshotTime > 0
    /\ \E p, q \in DOMAIN files :
          /\ Extension(p) = ".txt" /\ files[p].class = "TextFile"
          /\ Extension(q) = ".cpp" /\ files[q].class = "ProgramFile"

\* C16: no step changes the time stamp stored in the record of a path that
\* stays tracked; a status() that returns keeps every tracked path that is in
\* the directory and prints it as changed exactly when isChanged holds of its
\* record; and isChanged of a record that stays tracked, once true, stays true
\* over every step that leaves the snapshot time alone, which every step but
\* commit() does (C11).  So a file printed as changed is printed again by
\* every later status() that returns, while it stays in the directory and no
\* commit() comes.
C16_StoredTimeNeverRefreshed ==
    [][ /\ \A p \in (DOMAIN files) \cap (DOMAIN files') :
             files'[p].lastUpdateTime = files[p].lastUpdateTime
        /\ (lastCmd' = "status" /\ pc' = "running" /\ status) =>
             \A p \in (DOMAIN files) \cap (DOMAIN disk) :
                /\ p \in DOMAIN files'
                /\ (Filename(p) \in Modified(out')) <=> isChanged(files[p], lastSnapshotTime)
        /\ lastSnapshotTime' = lastSnapshotTime =>
             \A p \in (DOMAIN files) \cap (DOMAIN files') :
                isChanged(files[p], lastSnapshotTime)
                    => isChanged(files'[p], lastSnapshotTime') ]_vars

\* the second of two status() calls that both printed a file as changed,
\* whose record still holds the time stamp read when the file was added,
\* taken after the clock has moved on
C16_Witness ==
    /\ pc = "running" /\ lastCmd = "status" /\ repeated
    /\ now > lastSnapshotTime
    /\ \E p \in (DOMAIN files) \cap (DOMAIN disk) :
          /\ Filename(p) \in Modified(out)
          /\ isChanged(files[p], lastSnapshotTime)
          /\ files[p].lastUpdateTime = files[p].creationTime

\* C17: of every path at most one record is allocated and not released, and
\* never a record is released twice; every value of the tracked map is an
\* allocated, unreleased record; while the command loop runs no record is
\* allocated beyond those of the map; and once the program has ended, every
\* record it allocated has been released.
C17_OwnershipExact ==
    /\ \A p \in Paths : heap[p] \in {0, 1}
    /\ \A p \in DOMAIN files : heap[p] = 1
    /\ pc = "running" => \A p \in Paths \ DOMAIN files : heap[p] = 0
    /\ pc \in {"exited", "terminated"} => heap = NoRecords

\* C18: the time stamp stored in a record and the snapshot time are on one
\* time scale: for every tracked record, taken from a file written at time t
\* of the wall clock, isChanged holds exactly when t is later than the
\* snapshot time.
C18_SameTimeScale ==
    \A p \in DOMAIN files : \A t \in 0..MaxTime :
        files[p].lastUpdateTime = FileClockCount(t) =>
            (isChanged(files[p], lastSnapshotTime) <=> t > lastSnapshotTime)

\* C19: a status() prints at most one line for a file name, never the same
\* name as new and as changed, nor as deleted and as new; and when it returns
\* it has printed no line for a path that was tracked before the call and is in
\* the directory with a last write at or before the snapshot time.
C19_AtMostOneEventPerPath ==
    lastCmd = "status" =>
        /\ \A fn \in Filenames : Cardinality(LinesFor(out, fn)) <= 1
        /\ Added(out) \cap Modified(out) = {}
        /\ Removed(out) \cap Added(out) = {}
        /\ pc = "running" =>
              \A p \in (DOMAIN files) \cap (DOMAIN disk) :
                  (Filename(p) \notin Added(out) /\ disk[p] <= lastSnapshotTime)
                      => LinesFor(out, Filename(p)) = {}

====
